---------------------------- MODULE Spec2Model ----------------------------
(***************************************************************************)
(* Model of src/main.py: a poller that fetches the latest release of each  *)
(* repository in REPOS, posts a Slack notification for releases whose id   *)
(* differs from the stored one, and persists the repo -> release-id map in *)
(* a GitHub Gist.                                                          *)
(*                                                                         *)
(* Texts (Python str) are sequences of cells <<c, n>>: the character c     *)
(* repeated n times.  Only the filler character "x" is ever given n > 1;   *)
(* every regular expression of the source meets "x" under a + or *         *)
(* quantifier, so a run of n fillers matches exactly where one does, and   *)
(* only len() and slicing see n.  That lets texts be longer than the 4000  *)
(* and 2900 character limits of the source.                                *)
(***************************************************************************)
EXTENDS Integers, Sequences, FiniteSets, TLC

----------------------------------------------------------------------------
(* Python str primitives on texts                                            *)

\* A str literal given as a tuple of one-character strings.
Str(chars) == [k \in DOMAIN chars |-> <<chars[k], 1>>]

\* The filler character repeated n times ("x" * n).
Pad(n) == IF n <= 0 THEN <<>> ELSE << <<"x", n>> >>

\* len(text)
RECURSIVE TextLen(_)
TextLen(t) == IF t = <<>> THEN 0 ELSE Head(t)[2] + TextLen(Tail(t))

\* text[:k]
RECURSIVE Take(_, _)
Take(t, k) ==
    IF k <= 0 \/ t = <<>> THEN <<>>
    ELSE IF Head(t)[2] <= k
         THEN <<Head(t)>> \o Take(Tail(t), k - Head(t)[2])
         ELSE << <<Head(t)[1], k>> >>

\* The character at cell p, "" past the end.
CharAt(t, p) == IF p >= 1 /\ p <= Len(t) THEN t[p][1] ELSE ""

\* The least cell index >= from holding character c, 0 when there is none.
FirstAt(t, from, c) ==
    LET S == {k \in from..Len(t) : t[k][1] = c}
    IN  IF S = {} THEN 0 ELSE CHOOSE k \in S : \A j \in S : k <= j

\* Character classes of Python's re: \s, [a-z], and . (anything but newline).
Whitespace == {" ", "\n", "\t"}
Lower == {"a", "b", "c", "d", "e", "f", "g", "h", "i", "j", "k", "l", "m",
          "n", "o", "p", "q", "r", "s", "t", "u", "v", "w", "x", "y", "z"}

\* The length (in cells) of the longest run of characters of class C at p.
RECURSIVE RunLen(_, _, _)
RunLen(t, p, C) ==
    IF p <= Len(t) /\ t[p][1] \in C THEN 1 + RunLen(t, p + 1, C) ELSE 0

\* re.MULTILINE ^ : the start of the text or just after a newline.
LineStart(t, p) == p = 1 \/ CharAt(t, p - 1) = "\n"

\* The last cell of the line that cell p is on.
LineEnd(t, p) ==
    LET nl == FirstAt(t, p, "\n") IN IF nl = 0 THEN Len(t) ELSE nl - 1

\* The backtick character, which a TLA+ string cannot hold.
BACKTICK == "BACKTICK"

INPUT_LIMIT == 4000
FINAL_LIMIT == 2900
TRUNCATED == Str(<<".", ".", ".", " ", "(", "t", "r", "u", "n", "c", "a",
                   "t", "e", "d", ")">>)
NO_NOTES == Str(<<"N", "o", " ", "r", "e", "l", "e", "a", "s", "e", " ",
                  "n", "o", "t", "e", "s", " ", "p", "r", "o", "v", "i",
                  "d", "e", "d", ".">>)

----------------------------------------------------------------------------
(* The regular-expression substitutions of github_to_slack_markdown          *)

\* re.sub(r"\[([^\]]+)\]\(([^)]+)\)", r"<\2|\1>", t).  The result of matching
\* at cell p: <<q, r>>, the cells of "]" and of the closing ")", or <<0, 0>>.
LinkMatch(t, p) ==
    IF CharAt(t, p) # "[" THEN <<0, 0>>
    ELSE LET q == FirstAt(t, p + 1, "]") IN
         IF q = 0 \/ q = p + 1 \/ CharAt(t, q + 1) # "(" THEN <<0, 0>>
         ELSE LET r == FirstAt(t, q + 2, ")") IN
              IF r = 0 \/ r = q + 2 THEN <<0, 0>> ELSE <<q, r>>

RECURSIVE LinkSubFrom(_, _)
LinkSubFrom(t, p) ==
    IF p > Len(t) THEN <<>>
    ELSE LET m == LinkMatch(t, p) IN
         IF m = <<0, 0>> THEN <<t[p]>> \o LinkSubFrom(t, p + 1)
         ELSE Str(<<"<">>) \o SubSeq(t, m[1] + 2, m[2] - 1) \o Str(<<"|">>)
              \o SubSeq(t, p + 1, m[1] - 1) \o Str(<<">">>)
              \o LinkSubFrom(t, m[2] + 1)

LinkRewrite(t) == LinkSubFrom(t, 1)

\* re.sub(r"^#{1,6}\s+(.+)$", r"*\1*", t, flags=re.MULTILINE).  The result of
\* matching at cell p: <<g, e>>, the first and last cell of group 1, or
\* <<0, 0>>.  The hashes are followed by whitespace, so they are the whole
\* run of hashes; \s+ is greedy and gives back whitespace until .+ finds a
\* character that is not a newline.
HeadingMatch(t, p) ==
    LET h == RunLen(t, p, {"#"})
        w == RunLen(t, p + h, Whitespace)
        J == {j \in 1..w : p + h + j <= Len(t) /\ t[p + h + j][1] # "\n"}
    IN  IF ~LineStart(t, p) \/ h < 1 \/ h > 6 \/ J = {} THEN <<0, 0>>
        ELSE LET j == CHOOSE x \in J : \A y \in J : y <= x
             IN  <<p + h + j, LineEnd(t, p + h + j)>>

RECURSIVE HeadingSubFrom(_, _)
HeadingSubFrom(t, p) ==
    IF p > Len(t) THEN <<>>
    ELSE LET m == HeadingMatch(t, p) IN
         IF m = <<0, 0>> THEN <<t[p]>> \o HeadingSubFrom(t, p + 1)
         ELSE Str(<<"*">>) \o SubSeq(t, m[1], m[2]) \o Str(<<"*">>)
              \o HeadingSubFrom(t, m[2] + 1)

HeadingRewrite(t) == HeadingSubFrom(t, 1)

\* re.sub of three backticks, [a-z]* and a newline by three backticks and
\* a newline (line 153).  The result of matching at cell p: the cell of the
\* newline, or 0.
FenceMatch(t, p) ==
    LET l == RunLen(t, p + 3, Lower) IN
    IF CharAt(t, p) = BACKTICK /\ CharAt(t, p + 1) = BACKTICK
       /\ CharAt(t, p + 2) = BACKTICK /\ CharAt(t, p + 3 + l) = "\n"
    THEN p + 3 + l ELSE 0

RECURSIVE FenceSubFrom(_, _)
FenceSubFrom(t, p) ==
    IF p > Len(t) THEN <<>>
    ELSE LET m == FenceMatch(t, p) IN
         IF m = 0 THEN <<t[p]>> \o FenceSubFrom(t, p + 1)
         ELSE Str(<<BACKTICK, BACKTICK, BACKTICK, "\n">>) \o FenceSubFrom(t, m + 1)

FenceRewrite(t) == FenceSubFrom(t, 1)

\* text.replace(old, new), old and new given as texts of single characters.
RECURSIVE ReplaceFrom(_, _, _, _)
ReplaceFrom(t, p, old, new) ==
    IF p > Len(t) THEN <<>>
    ELSE IF p + Len(old) - 1 <= Len(t) /\ SubSeq(t, p, p + Len(old) - 1) = old
         THEN new \o ReplaceFrom(t, p + Len(old), old, new)
         ELSE <<t[p]>> \o ReplaceFrom(t, p + 1, old, new)

Replace(t, old, new) == ReplaceFrom(t, 1, old, new)

\* text.replace("&lt;", "<").replace("&gt;", ">").replace("&amp;", "&")
EntityUnescape(t) ==
    Replace(Replace(Replace(t, Str(<<"&", "l", "t", ";">>), Str(<<"<">>)),
                    Str(<<"&", "g", "t", ";">>), Str(<<">">>)),
            Str(<<"&", "a", "m", "p", ";">>), Str(<<"&">>))

\* re.sub(r"^(\s*[-*]\s+)", r"\n\1", t, flags=re.MULTILINE).  The result of
\* matching at cell p: the last cell of the match, or 0.
BulletMatch(t, p) ==
    LET a == RunLen(t, p, Whitespace)
        b == RunLen(t, p + a + 1, Whitespace)
    IN  IF LineStart(t, p) /\ CharAt(t, p + a) \in {"-", "*"} /\ b >= 1
        THEN p + a + b ELSE 0

RECURSIVE BulletSubFrom(_, _)
BulletSubFrom(t, p) ==
    IF p > Len(t) THEN <<>>
    ELSE LET m == BulletMatch(t, p) IN
         IF m = 0 THEN <<t[p]>> \o BulletSubFrom(t, p + 1)
         ELSE Str(<<"\n">>) \o SubSeq(t, p, m) \o BulletSubFrom(t, m + 1)

BulletRewrite(t) == BulletSubFrom(t, 1)

----------------------------------------------------------------------------
(* github_to_slack_markdown, lines 94-161                                    *)

\* How requests.post to the render API and html2text can end: "ok", or the
\* exception raised inside the try block of line 104.
RenderFailures == {"ConnectionError", "Timeout", "HTTPError", "html2text_error"}
RenderOutcomes == {"ok"} \cup RenderFailures

\* A handler as narrow as the one of main(): "except requests.RequestException".
ConverterCatchesRequestErrors == {"ConnectionError", "Timeout", "HTTPError"}

\* The exceptions the handler of line 141 catches: "except Exception".
ConverterCatches == RenderFailures

\* Lines 100-101.
InputTruncate(t) ==
    IF TextLen(t) > INPUT_LIMIT THEN Take(t, INPUT_LIMIT) \o TRUNCATED ELSE t

\* Lines 136-137.
FinalTruncate(t) ==
    IF TextLen(t) > FINAL_LIMIT THEN Take(t, FINAL_LIMIT) \o TRUNCATED ELSE t

\* Lines 128-139, applied to the output md of html2text (line 124).
PrimaryTransform(md) == FinalTruncate(HeadingRewrite(LinkRewrite(md)))

\* Lines 147-161, applied to the (input-truncated) argument.
FallbackTransform(t) ==
    BulletRewrite(EntityUnescape(FenceRewrite(HeadingRewrite(LinkRewrite(t)))))

\* The whole call: the argument, how the render call ends, and what html2text
\* returns when it ends well.  None and "" are both the empty text: line 96
\* tests "not text".
GithubToSlackMarkdown(arg, outcome, md) ==
    IF arg = <<>> THEN [raised |-> FALSE, value |-> NO_NOTES]
    ELSE IF outcome = "ok"
         THEN [raised |-> FALSE, value |-> PrimaryTransform(md)]
         ELSE IF outcome \in ConverterCatches
              THEN [raised |-> FALSE,
                    value |-> FallbackTransform(InputTruncate(arg))]
              ELSE [raised |-> TRUE, value |-> <<>>]

----------------------------------------------------------------------------
(* Configuration and the external services                                   *)

\* A list that names one repository twice.
REPOS_Duplicated == <<"nestjs/nest", "nestjs/nest", "microsoft/typescript">>

\* Lines 11-16.
REPOS == <<"nestjs/nest", "slackapi/slack-github-action", "microsoft/typescript">>
Repos == {REPOS[k] : k \in DOMAIN REPOS}

\* The release ids the release API may report: an older and a newer one.
ReleaseIds == {100, 101}

\* str(latest_release["id"]), lines 184 and 220.
PyStr(n) == ToString(n)

\* The empty dict.
EmptyMap == [r \in {} |-> ""]

\* A repository that was watched once and is no longer in REPOS.
Unconfigured == "old/repo"

\* What the state file may hold: a mapping from some repositories to str ids,
\* with or without an entry left behind for a repository no longer in REPOS.
GistContents ==
    LET tracked ==
            UNION {[D -> {PyStr(n) : n \in ReleaseIds}] : D \in SUBSET Repos}
    IN  tracked \cup {(Unconfigured :> "100") @@ m : m \in tracked}

\* The release bodies the poll loop is run on: null, and a short note.
PollBodies == {<<>>, Str(<<"[", "a", "]", "(", "b", ")">>)}
\* What html2text may return for them.
PollRendered == {<<>>, Str(<<"[", "a", "]", "(", "b", ")", "\n">>)}

\* response.json() of GET /repos/{repo}/releases/latest: a dict.  A full
\* response has id, name, body and html_url; a malformed one lacks a key.
FullReleases ==
    {[id |-> n, name |-> "v", body |-> b, html_url |-> "u"] :
        n \in ReleaseIds, b \in PollBodies}
MalformedReleases ==
    { [name |-> "v", body |-> <<>>, html_url |-> "u"],
      [id |-> 100, name |-> "v", html_url |-> "u"],
      [id |-> 100, body |-> <<>>, html_url |-> "u"],
      [id |-> 100, name |-> "v", body |-> <<>>] }
ReleaseResponses == FullReleases \cup MalformedReleases

\* response.json() of GET /repos/{repo}: owner.avatar_url is read (line 200).
RepoResponses == { [owner |-> [avatar_url |-> "a"]], [full_name |-> "r"] }

\* A local variable that holds nothing.
Unset == [unset |-> TRUE]

VARIABLES
    gistId,          \* GIST_ID is set (line 32)
    gist,            \* the mapping stored in the Gist file
    pc,              \* where main() is
    i,               \* the index in REPOS of the repository of the iteration
    last_releases,   \* main()'s mapping (line 165)
    latest_release,  \* line 174
    repo_info,       \* line 179
    loaded,          \* history: what load_last_releases returned in this run
    loadOk,          \* history: it was read from the Gist
    relFetch,        \* history: the release fetch of this iteration
    repoFetch,       \* history: the metadata fetch of this iteration
    fetchedId,       \* history: the release id fetched in this iteration
    posts,           \* history, per repository: the release ids of the webhook
                     \* POSTs issued in this run (0: an id that cannot be read)
    postOk,          \* history, per repository: webhook POSTs that succeeded
    saves,           \* history: calls of save_last_release in this run
    patched,         \* history: this run's save wrote the Gist file
    notified,        \* history across runs: a release an earlier run posted
    convPc,          \* where github_to_slack_markdown is
    text,            \* its parameter (reassigned on line 101)
    convArg,         \* history: the argument it was called with
    convOutcome,     \* history: how the render call ended
    convReturn       \* its return value

pollVars == <<gistId, gist, pc, i, last_releases, latest_release, repo_info,
              loaded, loadOk, relFetch, repoFetch, fetchedId, posts, postOk,
              saves, patched, notified>>
convVars == <<convPc, text, convArg, convOutcome, convReturn>>
vars == <<pollVars, convVars>>

Has(d, key) == key \in DOMAIN d

\* The repository of the iteration ("" before the first).
Repo == IF i >= 1 /\ i <= Len(REPOS) THEN REPOS[i] ELSE ""

NoHistory ==
    /\ relFetch = "none"
    /\ repoFetch = "none"
    /\ fetchedId = 0
    /\ posts = [r \in Repos |-> <<>>]
    /\ postOk = [r \in Repos |-> 0]
    /\ saves = 0
    /\ patched = FALSE

ConvIdle ==
    /\ convPc = "idle"
    /\ text = <<>>
    /\ convArg = <<>>
    /\ convOutcome = "none"
    /\ convReturn = <<>>

\* The process is started: nothing loaded yet.  Without a GIST_ID there is
\* no state file.
Init ==
    /\ gistId \in BOOLEAN
    /\ gist \in (IF gistId THEN GistContents ELSE {EmptyMap})
    /\ pc = "load"
    /\ i = 0
    /\ last_releases = EmptyMap
    /\ latest_release = Unset
    /\ repo_info = Unset
    /\ loaded = EmptyMap
    /\ loadOk = FALSE
    /\ NoHistory
    /\ notified = Unset
    /\ ConvIdle

----------------------------------------------------------------------------
(* main, lines 164-229                                                       *)

\* load_last_releases, lines 36-63: the empty dict when GIST_ID is unset or
\* when the GET, raise_for_status or json.loads raises; else the file's dict
\* (the empty dict when the Gist lacks the file).
Load ==
    /\ pc = "load"
    /\ \E ok \in BOOLEAN :
        /\ loadOk' = (gistId /\ ok)
        /\ last_releases' = IF gistId /\ ok THEN gist ELSE EmptyMap
    /\ loaded' = last_releases'
    /\ notified' = IF notified = Unset THEN Unset
                   ELSE [notified EXCEPT !.durable = @ /\ loadOk']
    /\ pc' = "loop"
    /\ UNCHANGED <<gistId, gist, i, latest_release, repo_info, relFetch,
                   repoFetch, fetchedId, posts, postOk, saves, patched,
                   convVars>>

\* Line 167, "for repo in REPOS": the next repository, or line 229 after the
\* last one.
NextRepo ==
    /\ pc = "loop"
    /\ IF i < Len(REPOS)
       THEN /\ i' = i + 1
            /\ pc' = "fetch_release"
            /\ relFetch' = "none"
            /\ repoFetch' = "none"
            /\ fetchedId' = 0
       ELSE /\ pc' = "save"
            /\ UNCHANGED <<i, relFetch, repoFetch, fetchedId>>
    /\ UNCHANGED <<gistId, gist, last_releases, latest_release, repo_info,
                   loaded, loadOk, posts, postOk, saves, patched, notified,
                   convVars>>

\* The end of the loop body, normally or through the handler of line 225.
\* The locals are overwritten before they are read again.
EndIteration ==
    /\ pc' = "loop"
    /\ latest_release' = Unset
    /\ repo_info' = Unset

\* An exception that "except requests.RequestException" (line 225) does not
\* catch leaves main().
Raise ==
    /\ pc' = "raised"
    /\ UNCHANGED <<latest_release, repo_info>>

\* The release of notified is no longer the latest one of its repository:
\* this response brings another id, or none.
Superseded(resp) ==
    /\ notified # Unset
    /\ notified.repo = Repo
    /\ ~(Has(resp, "id") /\ PyStr(resp.id) = notified.id)

\* Lines 170-174: a RequestException is caught on line 225.
FetchRelease ==
    /\ pc = "fetch_release"
    /\ \/ /\ relFetch' = "failed"
          /\ EndIteration
          /\ UNCHANGED <<fetchedId, notified>>
       \/ \E resp \in ReleaseResponses :
          /\ relFetch' = "ok"
          /\ fetchedId' = IF Has(resp, "id") THEN resp.id ELSE 0
          /\ latest_release' = resp
          /\ notified' = IF Superseded(resp) THEN Unset ELSE notified
          /\ pc' = "fetch_repo"
          /\ UNCHANGED repo_info
    /\ UNCHANGED <<gistId, gist, i, last_releases, loaded, loadOk, repoFetch,
                   posts, postOk, saves, patched, convVars>>

\* Lines 177-179.
FetchRepoInfo ==
    /\ pc = "fetch_repo"
    /\ \/ /\ repoFetch' = "failed"
          /\ EndIteration
       \/ \E resp \in RepoResponses :
          /\ repoFetch' = "ok"
          /\ repo_info' = resp
          /\ pc' = "compare"
          /\ UNCHANGED latest_release
    /\ UNCHANGED <<gistId, gist, i, last_releases, loaded, loadOk, relFetch,
                   fetchedId, posts, postOk, saves, patched, notified,
                   convVars>>

\* The comparison without str(): an int id never equals a stored string.
IsNewNoStr(state, repo, release) ==
    IF ~Has(state, repo) THEN "new"
    ELSE IF ~Has(release, "id") THEN "KeyError" ELSE "new"

\* The comparison with a default for a missing key, state.get(repo, id):
\* a repository without an entry is never new.
IsNewMissingKey(state, repo, release) ==
    IF ~Has(release, "id") THEN "KeyError"
    ELSE IF ~Has(state, repo) THEN "same"
         ELSE IF PyStr(release.id) # state[repo] THEN "new" ELSE "same"

\* The condition of lines 182-185: "new", "same", or "KeyError" when
\* latest_release["id"] is read (only when the repository is in
\* last_releases) and is missing.
IsNew(state, repo, release) ==
    IF ~Has(state, repo) THEN "new"
    ELSE IF ~Has(release, "id") THEN "KeyError"
         ELSE IF PyStr(release.id) # state[repo] THEN "new" ELSE "same"

\* Lines 182-185 and 222-223.
Compare ==
    /\ pc = "compare"
    /\ LET c == IsNew(last_releases, Repo, latest_release) IN
       IF c = "new"
       THEN /\ pc' = "notify"
            /\ UNCHANGED <<latest_release, repo_info>>
       ELSE IF c = "same" THEN EndIteration ELSE Raise
    /\ UNCHANGED <<gistId, gist, i, last_releases, loaded, loadOk, relFetch,
                   repoFetch, fetchedId, posts, postOk, saves, patched,
                   notified, convVars>>

\* The keys read while the payload is built, lines 187-208.
PayloadReadable ==
    /\ Has(latest_release, "body")
    /\ Has(latest_release, "name")
    /\ Has(repo_info, "owner")
    /\ Has(latest_release, "html_url")

\* The id recorded under the first repository instead of the current one.
RecordWrongKey(state, repo, release) == (REPOS[1] :> PyStr(release.id)) @@ state

\* Line 220.
Record(state, repo, release) == (repo :> PyStr(release.id)) @@ state

\* Lines 187-220: convert the notes, build the payload, POST it, and on
\* success record the id.
Notify ==
    /\ pc = "notify"
    /\ IF ~PayloadReadable
       THEN /\ Raise
            /\ UNCHANGED <<last_releases, posts, postOk>>
       ELSE \E outcome \in RenderOutcomes, md \in PollRendered :
            IF GithubToSlackMarkdown(latest_release.body, outcome, md).raised
            THEN /\ Raise
                 /\ UNCHANGED <<last_releases, posts, postOk>>
            ELSE /\ posts' = [posts EXCEPT ![Repo] = Append(@, fetchedId)]
                 /\ \/ \* line 213 or raise_for_status (line 214) raises
                       /\ EndIteration
                       /\ UNCHANGED <<last_releases, postOk>>
                    \/ \* the POST succeeded; line 220
                       /\ postOk' = [postOk EXCEPT ![Repo] = @ + 1]
                       /\ IF Has(latest_release, "id")
                          THEN /\ last_releases' =
                                     Record(last_releases, Repo, latest_release)
                               /\ EndIteration
                          ELSE /\ Raise
                               /\ UNCHANGED last_releases
    /\ UNCHANGED <<gistId, gist, i, loaded, loadOk, relFetch, repoFetch,
                   fetchedId, saves, patched, notified, convVars>>

\* A save of the mapping as it was loaded, without this run's updates.
WrittenStale(state, ok) == IF gistId /\ ok THEN loaded ELSE gist

\* What save_last_release leaves in the Gist file, lines 66-91: nothing is
\* written when GIST_ID is unset or the PATCH fails; else the file is
\* overwritten with the whole mapping.
Written(state, ok) == IF gistId /\ ok THEN state ELSE gist

\* Line 229.
Save ==
    /\ pc = "save"
    /\ saves' = saves + 1
    /\ \E ok \in BOOLEAN :
          /\ patched' = (gistId /\ ok)
          /\ gist' = Written(last_releases, ok)
    /\ pc' = "done"
    /\ UNCHANGED <<gistId, i, last_releases, latest_release, repo_info,
                   loaded, loadOk, relFetch, repoFetch, fetchedId, posts,
                   postOk, notified, convVars>>

\* main() has returned or raised: the run is over.
RunOver == pc \in {"done", "raised"}

\* The releases posted successfully by the run that is over, when main()
\* returned: their ids as last_releases holds them, and whether the run
\* wrote them to the Gist.
Posted ==
    IF pc = "done"
    THEN {[repo |-> r, id |-> last_releases[r], durable |-> patched] :
             r \in {q \in Repos : postOk[q] > 0}}
    ELSE {}

\* The next scheduled invocation of the program (lines 252-253, or the
\* request handler of lines 232-249).  Only the Gist outlives a run.  The
\* history variable notified keeps one release posted so far by a run that
\* returned, chosen freely; durable tells whether that run wrote the Gist
\* and every run since has read it.
NextRun ==
    /\ RunOver
    /\ LET cand == (IF notified = Unset THEN {} ELSE {notified}) \cup Posted
       IN  notified' \in (IF cand = {} THEN {Unset} ELSE cand)
    /\ pc' = "load"
    /\ i' = 0
    /\ last_releases' = EmptyMap
    /\ latest_release' = Unset
    /\ repo_info' = Unset
    /\ loaded' = EmptyMap
    /\ loadOk' = FALSE
    /\ relFetch' = "none"
    /\ repoFetch' = "none"
    /\ fetchedId' = 0
    /\ posts' = [r \in Repos |-> <<>>]
    /\ postOk' = [r \in Repos |-> 0]
    /\ saves' = 0
    /\ patched' = FALSE
    /\ UNCHANGED <<gistId, gist, convVars>>

Next ==
    \/ Load
    \/ NextRepo
    \/ FetchRelease
    \/ FetchRepoInfo
    \/ Compare
    \/ Notify
    \/ Save
    \/ NextRun

Spec == Init /\ [][Next]_vars

----------------------------------------------------------------------------
(* github_to_slack_markdown on its own, step by step                         *)

\* The pieces release notes are put together from: a link, a heading, a list
\* item, an entity, a code fence with a language tag, and runs of plain
\* characters around the two limits.
Pieces ==
    { Str(<<"[", "a", "]", "(", "b", ")">>),
      Str(<<"#", " ", "h", "\n">>),
      Str(<<"-", " ", "i", "\n">>),
      Str(<<"&", "l", "t", ";">>),
      Str(<<BACKTICK, BACKTICK, BACKTICK, "p", "y", "\n">>),
      Pad(1), Pad(FINAL_LIMIT - 1), Pad(INPUT_LIMIT - 1), Pad(INPUT_LIMIT + 1) }

MaxPieces == 2
MaxRenderedPieces == 1

RECURSIVE Concat(_)
Concat(ps) == IF ps = <<>> THEN <<>> ELSE Head(ps) \o Concat(Tail(ps))

TextsOf(n) == {Concat(ps) : ps \in UNION {[1..k -> Pieces] : k \in 0..n}}

\* The arguments the function is called with, and what html2text may return.
ConvInputs == TextsOf(MaxPieces)
ConvRendered == TextsOf(MaxRenderedPieces)

\* The function has just been called; main() is not running.
ConvInit ==
    /\ gistId = FALSE
    /\ gist = EmptyMap
    /\ pc = "idle"
    /\ i = 0
    /\ last_releases = EmptyMap
    /\ latest_release = Unset
    /\ repo_info = Unset
    /\ loaded = EmptyMap
    /\ loadOk = FALSE
    /\ NoHistory
    /\ notified = Unset
    /\ convPc = "enter"
    /\ text \in ConvInputs
    /\ convArg = text
    /\ convOutcome = "none"
    /\ convReturn = <<>>

\* Lines 96-101.
ConvEnter ==
    /\ convPc = "enter"
    /\ IF text = <<>>
       THEN /\ convReturn' = NO_NOTES
            /\ convPc' = "returned"
            /\ UNCHANGED text
       ELSE /\ text' = InputTruncate(text)
            /\ convPc' = "render"
            /\ UNCHANGED convReturn
    /\ UNCHANGED <<convArg, convOutcome, pollVars>>

\* Lines 105-139: the render call and html2text end well.
ConvRenderOk ==
    /\ convPc = "render"
    /\ \E md \in ConvRendered : convReturn' = PrimaryTransform(md)
    /\ convOutcome' = "ok"
    /\ convPc' = "returned"
    /\ UNCHANGED <<text, convArg, pollVars>>

\* Lines 141-161: something in the try block raises.
ConvRenderFail ==
    /\ convPc = "render"
    /\ \E e \in RenderFailures :
        /\ convOutcome' = e
        /\ IF e \in ConverterCatches
           THEN /\ convReturn' = FallbackTransform(text)
                /\ convPc' = "returned"
           ELSE /\ convPc' = "raised"
                /\ UNCHANGED convReturn
    /\ UNCHANGED <<text, convArg, pollVars>>

NextConv ==
    \/ ConvEnter
    \/ ConvRenderOk
    \/ ConvRenderFail

SpecConv == ConvInit /\ [][NextConv]_vars

----------------------------------------------------------------------------
(* Properties of main()                                                      *)

\* The entry of a mapping for a repository, "absent" when it has none.
Entry(m, r) == IF Has(m, r) THEN m[r] ELSE "absent"

\* The iteration of the current repository is over.
IterationOver == i >= 1 /\ pc \in {"loop", "save", "done", "raised"}

\* C1: during a run the entry of a repository in last_releases differs from
\* the loaded one only if the webhook POST for that repository succeeded in
\* this run, and then it is str() of the release id that was fetched and
\* posted; once the POST has succeeded and line 220 has run, the entry is
\* that string; every other entry, the entries of repositories that are not
\* in REPOS included, is the loaded one.
C1_StateChangesOnlyAfterPost ==
    /\ \A r \in Repos :
        /\ Entry(last_releases, r) # Entry(loaded, r) =>
              /\ postOk[r] > 0
              /\ last_releases[r] = PyStr(posts[r][Len(posts[r])])
        /\ postOk[r] > 0 /\ ~(pc = "raised" /\ Repo = r) =>
              /\ Has(last_releases, r)
              /\ last_releases[r] = PyStr(posts[r][Len(posts[r])])
        /\ postOk[r] = 0 => Entry(last_releases, r) = Entry(loaded, r)
    /\ \A k \in (DOMAIN last_releases \cup DOMAIN loaded) \ Repos :
        Entry(last_releases, k) = Entry(loaded, k)

\* A run in which one repository was notified and recorded and the POST of
\* another failed, with an entry loaded for a repository that is not in REPOS.
C1_Witness ==
    /\ pc = "done"
    /\ \E r, q \in Repos :
        /\ postOk[r] > 0
        /\ Entry(last_releases, r) # Entry(loaded, r)
        /\ posts[q] # <<>> /\ postOk[q] = 0
        /\ Has(loaded, q)
    /\ Has(loaded, Unconfigured)

\* C2: when the run is over, a repository whose webhook POST failed has the
\* entry that was loaded, and every repository listed after it has had its
\* iteration: the loop reached the end of REPOS and main() returned.
C2_PostFailureLeavesRestProcessed ==
    RunOver =>
        \A r \in Repos :
            posts[r] # <<>> /\ postOk[r] = 0 =>
                /\ Entry(last_releases, r) = Entry(loaded, r)
                /\ i = Len(REPOS)
                /\ pc = "done"

\* C3: when the stored id of a repository equals str() of the id just
\* fetched, no POST is issued for it and its entry stays the loaded one; and
\* no POST of the run is for a release whose id is the stored one.
C3_SameIdNoNotification ==
    /\ (/\ relFetch = "ok"
        /\ fetchedId # 0
        /\ Has(loaded, Repo)
        /\ loaded[Repo] = PyStr(fetchedId))
       => /\ posts[Repo] = <<>>
          /\ pc # "notify"
          /\ Entry(last_releases, Repo) = loaded[Repo]
    /\ \A r \in Repos : \A k \in DOMAIN posts[r] :
          Has(loaded, r) => PyStr(posts[r][k]) # loaded[r]

\* An iteration that fetched both responses and found the stored id.
C3_Witness ==
    /\ pc = "loop"
    /\ relFetch = "ok"
    /\ repoFetch = "ok"
    /\ Has(loaded, Repo)
    /\ loaded[Repo] = PyStr(fetchedId)

C5_SavedExactlyOnce ==
    /\ RunOver => saves = 1
    /\ saves > 0 => i = Len(REPOS)

\* C6, as claimed: a run that fetches, for a repository, the id of a release
\* that an earlier run posted (no other id fetched for it since) issues no
\* POST for that repository.
C6_NeverNotifiedTwice ==
    (/\ notified # Unset
     /\ notified.repo = Repo
     /\ relFetch = "ok"
     /\ PyStr(fetchedId) = notified.id)
    => posts[Repo] = <<>>

\* C6, amended: the same, when the run that posted wrote the Gist and every
\* run since, this one included, has read it.
C6_NotNotifiedTwiceWhenSaved ==
    (/\ notified # Unset
     /\ notified.durable
     /\ notified.repo = Repo
     /\ relFetch = "ok"
     /\ PyStr(fetchedId) = notified.id)
    => /\ posts[Repo] = <<>>
       /\ pc # "notify"

\* A later run has fetched both responses for a release that was posted and
\* saved, and its iteration is over.
C6_Witness ==
    /\ notified # Unset
    /\ notified.durable
    /\ notified.repo = Repo
    /\ relFetch = "ok"
    /\ repoFetch = "ok"
    /\ PyStr(fetchedId) = notified.id
    /\ pc = "loop"

\* C7: no failure leaves main(): it never raises, and when it is over the
\* loop has gone through all of REPOS, with at most one POST per repository.
C7_FailuresIsolated ==
    /\ pc # "raised"
    /\ RunOver => i = Len(REPOS)
    /\ \A r \in Repos : Len(posts[r]) <= 1

\* C10: at most one POST is issued per repository in a run; a repository
\* whose iteration has not begun has none; and the repository of the
\* iteration has one only if both of its fetches succeeded.
C10_OnePostAfterBothFetches ==
    /\ \A r \in Repos : Len(posts[r]) <= 1
    /\ \A k \in DOMAIN REPOS : k > i => posts[REPOS[k]] = <<>>
    /\ i >= 1 /\ posts[Repo] # <<>> => relFetch = "ok" /\ repoFetch = "ok"
    /\ pc = "notify" => relFetch = "ok" /\ repoFetch = "ok"

\* A run that has posted for its first repository and then, for its second,
\* fetched a new release but not the metadata: no POST.
C10_Witness ==
    /\ i = 2
    /\ pc = "loop"
    /\ posts[REPOS[1]] # <<>>
    /\ relFetch = "ok"
    /\ repoFetch = "failed"
    /\ fetchedId # 0
    /\ Entry(last_releases, Repo) # PyStr(fetchedId)
    /\ posts[Repo] = <<>>

----------------------------------------------------------------------------
(* Properties of github_to_slack_markdown                                    *)

\* C8: the returned string is never longer than 2900.
C8_ReturnWithinLimit ==
    convPc = "returned" => TextLen(convReturn) <= FINAL_LIMIT

\* C9: for a non-empty argument, when the render call fails the function
\* does not raise: it returns the fallback transform of the argument (cut to
\* 4000 first), which is not empty.
C9_FallbackOnRenderFailure ==
    convArg # <<>> /\ convOutcome \in RenderFailures =>
        /\ convPc = "returned"
        /\ convReturn = FallbackTransform(InputTruncate(convArg))
        /\ TextLen(convReturn) > 0

\* The fallback has returned for an argument longer than 4000 that holds a
\* link.
C9_Witness ==
    /\ convPc = "returned"
    /\ convOutcome \in RenderFailures
    /\ TextLen(convArg) > INPUT_LIMIT
    /\ convReturn # InputTruncate(convArg)

=============================================================================
